---------------------------- MODULE Spec2Model ----------------------------
(***************************************************************************)
(* A model of hypertuner.py: the interactive Optuna study over six assets  *)
(* (objective, main) and its two pure functions (loss_function,            *)
(* round_probabilities).                                                   *)
(*                                                                         *)
(* Numbers.                                                                *)
(*   - the floats of the sampling and rounding code (d, p, prob * scale,   *)
(*     the remainders) are IEEE-754 doubles m * 2^e with a 53-bit m, and   *)
(*     every operation rounds to nearest, ties to even, as Python does;    *)
(*     -0.0 is not told apart from 0.0 (they compare equal in Python);     *)
(*   - a vector written as a literal is a record [num |-> <<n1,...>>,      *)
(*     den |-> d]: Python reads entry i as the double nearest num[i]/den;  *)
(*   - what round_probabilities returns, val / scale for an int val, is    *)
(*     carried as [num |-> vals, den |-> scale];                           *)
(*   - a value typed by the evaluator, and a loss, is such a double with a  *)
(*     sign, or inf, -inf, nan; Fin(v) is the double Python reads from the *)
(*     decimal v / FP;                                                     *)
(*   - a draw u is counted in units of 1e-8 and is a power of ten.         *)
(* Sequences are 1-based: asset i of the program is position i+1 here.     *)
(***************************************************************************)
EXTENDS Integers, Sequences, FiniteSets, TLC

VARIABLES
    pc,           \* where the program (or the harness of a pure function) stands
    n_trials,     \* the budget handed to study.optimize
    draws,        \* the values the suggestion service may hand back in this run
    trials,       \* the study's trial records, in trial-number order
    d,            \* objective's local d
    p,            \* objective's local p
    p_trim,       \* objective's local p_trim
    sharpe,       \* objective's local sharpe
    maxdrawdown,  \* objective's local maxdrawdown
    console,      \* the last message objective printed in its prompt loop
    best_trial,   \* main's local best_trial (a trial number) once read
    report,       \* the allocation main prints in the final report
    args,         \* the arguments of a pure function under test
    ret           \* what that function returned

vars == <<pc, n_trials, draws, trials, d, p, p_trim, sharpe, maxdrawdown,
          console, best_trial, report, args, ret>>

study_vars == <<n_trials, draws, trials, d, p, p_trim, sharpe, maxdrawdown,
                console, best_trial, report>>

(***************************************************************************)
(* Bounds of the model.                                                    *)
(***************************************************************************)
MaxTrials == 2      \* budgets 1..MaxTrials are explored (main passes 70)
MaxLen == 3         \* longest vector handed to round_probabilities alone
MaxDigits == 4      \* digit counts 0..MaxDigits
GridBits == 12      \* vectors under test lie on the grid 1/2^GridBits
CoarseBits == 3     \* ... as multiples of 1/2^CoarseBits, then perturbed
Tol == 1            \* "sums to 1 within tolerance": within Tol grid units
DecimalDen == 50    \* ... and vectors of multiples of 1/DecimalDen summing to 1

None == "None"
\* no trial number: the study's best trial while no trial is complete
NoTrial == 0 - 1

RECURSIVE Sum(_)
Sum(s) == IF s = <<>> THEN 0 ELSE Head(s) + Sum(Tail(s))

(***************************************************************************)
(* Natural numbers of any size, for the significands of Python's floats:   *)
(* little-endian sequences of limbs below Base with no leading zero limb   *)
(* (<<>> is 0).                                                            *)
(***************************************************************************)
LimbBits == 14
Base == 2^LimbBits

Limb(a, i) == IF i <= Len(a) THEN a[i] ELSE 0

RECURSIVE BTrim(_)
BTrim(a) ==
    IF a = <<>> THEN a
    ELSE IF a[Len(a)] = 0 THEN BTrim(SubSeq(a, 1, Len(a) - 1))
    ELSE a

RECURSIVE BFromInt(_)
BFromInt(n) == IF n = 0 THEN <<>> ELSE <<n % Base>> \o BFromInt(n \div Base)

RECURSIVE BToInt(_)
BToInt(a) == IF a = <<>> THEN 0 ELSE Head(a) + Base * BToInt(Tail(a))

RECURSIVE BAddC(_, _, _, _)
BAddC(a, b, i, c) ==
    IF i > Len(a) /\ i > Len(b) THEN (IF c = 0 THEN <<>> ELSE <<c>>)
    ELSE LET t == Limb(a, i) + Limb(b, i) + c
         IN  <<t % Base>> \o BAddC(a, b, i + 1, t \div Base)

BAdd(a, b) == BAddC(a, b, 1, 0)

RECURSIVE BSubC(_, _, _, _)
BSubC(a, b, i, borrow) ==
    IF i > Len(a) THEN <<>>
    ELSE LET t == Limb(a, i) - Limb(b, i) - borrow
         IN  <<(t + Base) % Base>> \o BSubC(a, b, i + 1, IF t < 0 THEN 1 ELSE 0)

\* a - b, for a >= b
BSub(a, b) == BTrim(BSubC(a, b, 1, 0))

RECURSIVE BCmpFrom(_, _, _)
BCmpFrom(a, b, i) ==
    IF i = 0 THEN 0
    ELSE IF Limb(a, i) < Limb(b, i) THEN 0 - 1
    ELSE IF Limb(a, i) > Limb(b, i) THEN 1
    ELSE BCmpFrom(a, b, i - 1)

\* -1, 0 or 1 as a < b, a = b or a > b
BCmp(a, b) == BCmpFrom(a, b, IF Len(a) > Len(b) THEN Len(a) ELSE Len(b))

RECURSIVE BMulSmallC(_, _, _, _)
BMulSmallC(a, k, i, c) ==
    IF i > Len(a) THEN (IF c = 0 THEN <<>> ELSE <<c>>)
    ELSE LET t == a[i] * k + c
         IN  <<t % Base>> \o BMulSmallC(a, k, i + 1, t \div Base)

\* a * k, for k < Base
BMulSmall(a, k) == IF k = 0 THEN <<>> ELSE BMulSmallC(a, k, 1, 0)

RECURSIVE BMul(_, _)
BMul(a, b) ==
    IF a = <<>> \/ b = <<>> THEN <<>>
    ELSE BAdd(BMulSmall(a, Head(b)),
              LET rest == BMul(a, Tail(b))
              IN  IF rest = <<>> THEN <<>> ELSE <<0>> \o rest)

\* a * 2^n
BShl(a, n) ==
    IF a = <<>> THEN <<>>
    ELSE [i \in 1..(n \div LimbBits) |-> 0] \o BMulSmall(a, 2^(n % LimbBits))

\* a \div 2^n
BShr(a, n) ==
    LET w == n \div LimbBits
        r == n % LimbBits
        k == Len(a) - w
    IN  IF k <= 0 THEN <<>>
        ELSE BTrim([i \in 1..k |->
                       (a[w + i] \div 2^r) + (Limb(a, w + i + 1) % 2^r) * 2^(LimbBits - r)])

\* a % 2^n = 0
BLowZero(a, n) ==
    \A i \in 1..Len(a) :
        /\ i <= n \div LimbBits => a[i] = 0
        /\ i = n \div LimbBits + 1 => a[i] % 2^(n % LimbBits) = 0

\* bit n of a (bit 0 is the lowest)
BBit(a, n) == (Limb(a, n \div LimbBits + 1) \div 2^(n % LimbBits)) % 2

RECURSIVE IntBitLen(_)
IntBitLen(x) == IF x = 0 THEN 0 ELSE 1 + IntBitLen(x \div 2)

BBitLen(a) == IF a = <<>> THEN 0 ELSE (Len(a) - 1) * LimbBits + IntBitLen(a[Len(a)])

(***************************************************************************)
(* Python floats (IEEE-754 binary64, round to nearest, ties to even), as   *)
(* far as the program uses them: no negative numbers, no subnormals, no    *)
(* overflow.  A float is m * 2^e with 2^52 <= m < 2^53, or 0, or nan.      *)
(***************************************************************************)
MantBits == 53

FZero == [k |-> "fin", m |-> <<>>, e |-> 0]
FNaN == [k |-> "nan", m |-> <<>>, e |-> 0]

\* q with the bits dropped behind it rounded off: up when they are more than
\* half a unit, or exactly half (half and not rest) and q is odd
Nearest(q, half, rest) ==
    IF half /\ (rest \/ BBit(q, 0) = 1) THEN BAdd(q, <<1>>) ELSE q

\* r * 2^E as a float, for r <= 2^MantBits: rounding up to 2^MantBits gives
\* the next power of two
Packed(r, E) ==
    IF BBitLen(r) > MantBits
    THEN [k |-> "fin", m |-> BShr(r, 1), e |-> E + 1]
    ELSE [k |-> "fin", m |-> r, e |-> E]

\* RoundPack for an M of MantBits + sh bits
RoundAt(M, E, sticky, sh) ==
    IF sh <= 0 THEN [k |-> "fin", m |-> BShl(M, 0 - sh), e |-> E + sh]
    ELSE Packed(Nearest(BShr(M, sh), BBit(M, sh - 1) = 1,
                        sticky \/ ~BLowZero(M, sh - 1)),
                E + sh)

\* the float nearest to (M + s) * 2^E, where 0 <= s < 1 and s > 0 iff sticky
\* (with sticky, M carries at least MantBits + 1 bits)
RoundPack(M, E, sticky) ==
    IF BBitLen(M) = 0 THEN FZero
    ELSE RoundAt(M, E, sticky, BBitLen(M) - MantBits)

\* float(n) for an int n >= 0
FromInt(n) == RoundPack(BFromInt(n), 0, FALSE)

FIsNaN(x) == x.k = "nan"
FIsZero(x) == x.k = "fin" /\ x.m = <<>>

\* x * y
FMul(x, y) ==
    IF FIsNaN(x) \/ FIsNaN(y) THEN FNaN
    ELSE RoundPack(BMul(x.m, y.m), x.e + y.e, FALSE)

\* x + y
FAdd(x, y) ==
    IF FIsNaN(x) \/ FIsNaN(y) THEN FNaN
    ELSE IF FIsZero(x) THEN y
    ELSE IF FIsZero(y) THEN x
    ELSE IF x.e >= y.e THEN RoundPack(BAdd(BShl(x.m, x.e - y.e), y.m), y.e, FALSE)
    ELSE RoundPack(BAdd(BShl(y.m, y.e - x.e), x.m), x.e, FALSE)

\* x < y
FLess(x, y) ==
    IF FIsNaN(x) \/ FIsNaN(y) THEN FALSE
    ELSE IF FIsZero(y) THEN FALSE
    ELSE IF FIsZero(x) THEN TRUE
    ELSE x.e < y.e \/ (x.e = y.e /\ BCmp(x.m, y.m) < 0)

\* x - y, for x >= y
FSub(x, y) ==
    IF FIsNaN(x) \/ FIsNaN(y) THEN FNaN
    ELSE IF FIsZero(y) THEN x
    ELSE RoundPack(BSub(BShl(x.m, x.e - y.e), y.m), y.e, FALSE)

RECURSIVE DivChunk(_, _, _)
\* the quotient bits n..0 of r / b, for r < 2 * b (bit n has weight 1), as a
\* number below 2^(n+1), and the remainder left under the last bit
DivChunk(r, b, n) ==
    IF BCmp(r, b) >= 0
    THEN IF n = 0 THEN [q |-> 1, rem |-> BSub(r, b)]
         ELSE [DivChunk(BMulSmall(BSub(r, b), 2), b, n - 1) EXCEPT !.q = 2^n + @]
    ELSE IF n = 0 THEN [q |-> 0, rem |-> r]
         ELSE DivChunk(BMulSmall(r, 2), b, n - 1)

RECURSIVE DivLimbsFrom(_, _, _, _)
\* the quotient limbs above c, the limb c.q and k - 1 more limbs of the
\* quotient by b (the highest limb last), and the remainder left under them
DivLimbsFrom(c, b, k, high) ==
    IF k = 1 THEN [quot |-> <<c.q>> \o high, rem |-> c.rem]
    ELSE DivLimbsFrom(DivChunk(BMulSmall(c.rem, 2), b, LimbBits - 1), b, k - 1,
                      <<c.q>> \o high)

\* the first 4 * LimbBits quotient bits of a / b for a < 2 * b, one limb at a
\* time, and the remainder left under them
DivLimbs(a, b) == DivLimbsFrom(DivChunk(a, b, LimbBits - 1), b, 4, <<>>)

\* the float nearest to the quotient res * 2^E
RoundQuotient(res, E) == RoundPack(BTrim(res.quot), E, res.rem # <<>>)

\* x / y: 0/0 is nan (numpy warns and goes on); a zero divisor only ever
\* meets a zero dividend here
FDiv(x, y) ==
    IF FIsNaN(x) \/ FIsNaN(y) THEN FNaN
    ELSE IF FIsZero(y) THEN FNaN
    ELSE IF FIsZero(x) THEN FZero
    ELSE RoundQuotient(DivLimbs(x.m, y.m), x.e - y.e - (4 * LimbBits - 1))

\* int(math.floor(x)), for x below 2^31
FFloor(x) == IF x.e >= 0 THEN BToInt(BShl(x.m, x.e)) ELSE BToInt(BShr(x.m, 0 - x.e))

\* the float Python reads from the literal num/den
FromLiteral(num, den) == FDiv(FromInt(num), FromInt(den))

(***************************************************************************)
(* The evaluator's numbers and loss_function: Python floats with a sign,   *)
(* and inf, -inf, nan.  A finite one is a magnitude of the section above   *)
(* and a sign; zero carries no sign.                                       *)
(***************************************************************************)
FP == 10^4

\* the float with magnitude x, negative iff neg
Signed(neg, x) == [k |-> "fin", neg |-> neg /\ ~FIsZero(x), m |-> x.m, e |-> x.e]
Inf == [k |-> "inf", neg |-> FALSE, m |-> <<>>, e |-> 0]
NInf == [k |-> "ninf", neg |-> TRUE, m |-> <<>>, e |-> 0]
NaN == [k |-> "nan", neg |-> FALSE, m |-> <<>>, e |-> 0]

\* the float Python reads from the literal num/den, for an integer num
FromDecimal(num, den) ==
    Signed(num < 0, FromLiteral(IF num < 0 THEN 0 - num ELSE num, den))

\* ... from the decimal v / FP
Fin(v) == FromDecimal(v, FP)

IsFinite(x) == x.k = "fin"

\* abs(x), for a finite x
Abs(x) == [k |-> "fin", m |-> x.m, e |-> x.e]

\* unary minus
Neg(x) ==
    CASE x.k = "fin" -> Signed(~x.neg, Abs(x))
      [] x.k = "inf" -> NInf
      [] x.k = "ninf" -> Inf
      [] OTHER -> NaN

\* x + y for finite x and y: magnitudes of one sign add up, and of two signs
\* the smaller is taken from the larger; either result is rounded
AddFinite(x, y) ==
    IF x.neg = y.neg THEN Signed(x.neg, FAdd(Abs(x), Abs(y)))
    ELSE IF FLess(Abs(x), Abs(y)) THEN Signed(y.neg, FSub(Abs(y), Abs(x)))
    ELSE Signed(x.neg, FSub(Abs(x), Abs(y)))

\* x + y
Add(x, y) ==
    CASE x.k = "nan" \/ y.k = "nan" -> NaN
      [] x.k = "fin" /\ y.k = "fin" -> AddFinite(x, y)
      [] x.k = "fin" -> y
      [] y.k = "fin" -> x
      [] x.k = y.k -> x
      [] OTHER -> NaN

\* x / 100: the float quotient
Div100(x) == IF x.k = "fin" THEN Signed(x.neg, FDiv(Abs(x), FromInt(100))) ELSE x

\* x > y for finite x and y
GtFinite(x, y) ==
    IF x.neg THEN y.neg /\ FLess(Abs(x), Abs(y))
    ELSE y.neg \/ FLess(Abs(y), Abs(x))

\* x > y, false whenever a NaN is compared
Gt(x, y) ==
    CASE x.k = "nan" \/ y.k = "nan" -> FALSE
      [] x.k = "fin" /\ y.k = "fin" -> GtFinite(x, y)
      [] x.k = "inf" -> y.k # "inf"
      [] x.k = "ninf" -> FALSE
      [] OTHER -> y.k = "ninf"

\* Python's max(0, x): x replaces 0 only if x > 0
Max0(x) == IF Gt(x, Fin(0)) THEN x ELSE Fin(0)

loss_function_no_floor(s, m) == Add(Neg(s), Add(Div100(m), Neg(Fin((4 * FP) \div 10))))

loss_function(s, m) ==
    Add(Neg(s), Max0(Add(Div100(m), Neg(Fin((4 * FP) \div 10)))))

(***************************************************************************)
(* round_probabilities.                                                    *)
(***************************************************************************)
\* an exception leaving the function
Raise(e) == [raised |-> e]
Raised(r) == r.raised # None
ValueError == Raise("ValueError")
IndexError == Raise("IndexError")

\* ... with equal keys in reversed order (an unstable descending sort)
RECURSIVE InsertPosTiesReversed(_, _, _, _)
InsertPosTiesReversed(s, key, i, k) ==
    IF k > Len(s) THEN k
    ELSE IF ~FLess(key[i], key[s[k]]) THEN k
    ELSE InsertPosTiesReversed(s, key, i, k + 1)

\* Where index i goes in the list s of indices sorted so far: behind every
\* index whose key is not smaller (sorted(..., reverse=True) is stable).
RECURSIVE InsertPos(_, _, _, _)
InsertPos(s, key, i, k) ==
    IF k > Len(s) THEN k
    ELSE IF FLess(key[s[k]], key[i]) THEN k
    ELSE InsertPos(s, key, i, k + 1)

InsertAt(s, k, i) == SubSeq(s, 1, k - 1) \o <<i>> \o SubSeq(s, k, Len(s))

RECURSIVE SortedBy(_, _, _)
SortedBy(key, i, s) ==
    IF i > Len(key) THEN s
    ELSE SortedBy(key, i + 1, InsertAt(s, InsertPos(s, key, i, 1), i))

\* the sort without reverse=True: ascending keys
SortedIndicesAscending(key) == [j \in 1..Len(key) |-> SortedBy(key, 1, <<>>)[Len(key) + 1 - j]]

\* sorted(range(len(p)), key=lambda i: remainders[i], reverse=True)
SortedIndices(key) == SortedBy(key, 1, <<>>)

\* prob * scale for every prob in p
Scaled(v, scale) == [i \in 1..Len(v) |-> FMul(v[i], FromInt(scale))]

\* int(math.floor(prob * scale))
floor_vals(v, scale) == [i \in 1..Len(v) |-> FFloor(Scaled(v, scale)[i])]

\* prob * scale - fv
remainders(v, scale) ==
    LET sc == Scaled(v, scale)
    IN  [i \in 1..Len(v) |-> FSub(sc[i], FromInt(FFloor(sc[i])))]

Deficit(v, scale) == scale - Sum(floor_vals(v, scale))

\* the indices that get one more unit: indices[0 .. deficit-1]
Incremented(v, scale) ==
    LET indices == SortedIndices(remainders(v, scale))
    IN  {indices[j] : j \in 1..Deficit(v, scale)}

\* math.floor raises ValueError on nan; indices[i] raises IndexError once
\* deficit exceeds len(p)
round_probabilities(v, digits) ==
    LET scale == 10^digits
        n == Len(v)
        fv == floor_vals(v, scale)
        inc == Incremented(v, scale)
    IN  IF \E i \in 1..n : FIsNaN(v[i]) THEN ValueError
        ELSE IF scale - Sum(fv) > n THEN IndexError
        ELSE [raised |-> None,
              num |-> [i \in 1..n |-> fv[i] + (IF i \in inc THEN 1 ELSE 0)],
              den |-> scale]

(***************************************************************************)
(* The pure functions alone: a harness draws the arguments and calls.      *)
(***************************************************************************)
Den == 2^GridBits
Step == 2^(GridBits - CoarseBits)

RECURSIVE SeqsSumming(_, _)
\* the sequences of n naturals that sum to total
SeqsSumming(n, total) ==
    IF n = 0 THEN (IF total = 0 THEN {<<>>} ELSE {})
    ELSE UNION {{<<a>> \o s : s \in SeqsSumming(n - 1, total - a)} : a \in 0..total}

\* vectors on the coarse grid summing to 1, one entry moved by at most Tol
\* (every entry and every product with a scale is exact in a double)
GridVectors ==
    UNION {{[num |-> [i \in 1..n |-> Step * c[i] + (IF i = j THEN e ELSE 0)],
             den |-> Den] : c \in SeqsSumming(n, 2^CoarseBits),
                            j \in 1..n, e \in (0 - Tol)..Tol} : n \in 1..MaxLen}

\* vectors of decimal fractions summing to 1 (most entries are not doubles
\* and are rounded when read)
DecimalVectors ==
    UNION {{[num |-> c, den |-> DecimalDen] : c \in SeqsSumming(n, DecimalDen)} :
              n \in 1..MaxLen}

TestVectors == GridVectors \cup DecimalVectors

\* the list of floats Python builds from the literal
Floats(v) == [i \in 1..Len(v.num) |-> FromLiteral(v.num[i], v.den)]

ValidVector(v) == \A i \in 1..Len(v.num) : v.num[i] >= 0 /\ v.num[i] <= v.den

\* an argument as it is written: the decimal v / FP, or inf, -inf, nan
Decimal(v) == [k |-> "fin", v |-> v]
Written(k) == [k |-> k, v |-> 0]

\* the float Python reads from it
Float(w) ==
    CASE w.k = "fin" -> Fin(w.v)
      [] w.k = "inf" -> Inf
      [] w.k = "ninf" -> NInf
      [] OTHER -> NaN

LossSharpe == {Decimal(-(FP)), Decimal(-(FP \div 2)), Decimal(0),
               Decimal((3 * FP) \div 10), Decimal(FP \div 2), Decimal(FP),
               Written("inf"), Written("ninf"), Written("nan")}
LossDrawdown == {Decimal(-10 * FP), Decimal(0), Decimal(20 * FP), Decimal(40 * FP),
                 Decimal(40 * FP + FP \div 100), Decimal(45 * FP), Decimal(60 * FP),
                 Decimal(100 * FP), Written("inf"), Written("ninf"), Written("nan")}

Idle ==
    /\ n_trials = 0 /\ draws = {} /\ trials = <<>> /\ d = <<>>
    /\ p = None /\ p_trim = None /\ sharpe = None /\ maxdrawdown = None
    /\ console = None /\ best_trial = NoTrial /\ report = None

InitRound ==
    /\ Idle
    /\ pc = "call_round"
    /\ \E v \in TestVectors, k \in 0..MaxDigits :
         /\ ValidVector(v)
         /\ args = [literal |-> v, p |-> Floats(v), digits |-> k]
    /\ ret = None

CallRound ==
    /\ pc = "call_round"
    /\ ret' = round_probabilities(args.p, args.digits)
    /\ pc' = "returned"
    /\ UNCHANGED <<args, study_vars>>

SpecRound == InitRound /\ [][CallRound]_vars

InitLoss ==
    /\ Idle
    /\ pc = "call_loss"
    /\ \E s \in LossSharpe, m \in LossDrawdown :
         args = [literal |-> [sharpe |-> s, maxdrawdown |-> m],
                 sharpe |-> Float(s), maxdrawdown |-> Float(m)]
    /\ ret = None

CallLoss ==
    /\ pc = "call_loss"
    /\ ret' = loss_function(args.sharpe, args.maxdrawdown)
    /\ pc' = "returned"
    /\ UNCHANGED <<args, study_vars>>

SpecLoss == InitLoss /\ [][CallLoss]_vars


(***************************************************************************)
(* The study: main, study.optimize's loop and objective.                   *)
(***************************************************************************)
names == <<"VT", "THNQ", "UPRO", "KMLM", "GLD", "TLT">>
precision == 4
N == Len(names)

\* baseline = np.zeros(n) with 0.4, 0.1 and 0.05 stored in its first entries
baseline ==
    <<FromLiteral(4, 10), FromLiteral(1, 10), FromLiteral(5, 100),
      FZero, FZero, FZero>>

RECURSIVE FSumFrom(_, _, _)
FSumFrom(x, i, acc) ==
    IF i > Len(x) THEN acc ELSE FSumFrom(x, i + 1, FAdd(acc, x[i]))

\* x.sum() and np.sum(x) for fewer than 8 entries: added up from the left
FSum(x) == FSumFrom(x, 1, FZero)

sum_baseline == FSum(baseline)

\* the bound handed to suggest_float, in units of 1e-8: 1e-8 and 1.0
Low == 1
High == 10^8
\* what the suggestion service may hand back in one run: a run draws all its
\* values from one of these sets
DrawSets == {{High, Low}, {High \div 10, Low}, {High \div 100, High \div 1000}}

\* -math.log(u) for the draws of DrawSets, as the C library returns it
NegLog(u) ==
    CASE u = High -> FZero
           \* -0.0
      [] u = High \div 10 -> [k |-> "fin", m |-> <<5397, 11989, 15131, 1178>>, e |-> 0 - 51]
           \* 2.3025850929940455
      [] u = High \div 100 -> [k |-> "fin", m |-> <<5397, 11989, 15131, 1178>>, e |-> 0 - 50]
           \* 4.605170185988091
      [] u = High \div 1000 -> [k |-> "fin", m |-> <<16288, 9791, 6313, 1768>>, e |-> 0 - 50]
           \* 6.907755278982137
      [] u = Low -> [k |-> "fin", m |-> <<5398, 11989, 15131, 1178>>, e |-> 0 - 48]
           \* 18.420680743952367

\* d / d.sum(): a sum of 0 makes every entry 0/0
Normalised(x) == LET total == FSum(x) IN [i \in 1..Len(x) |-> FDiv(x[i], total)]

AllocationNoBaseline(dn) == dn

\* baseline + (1 - sum_baseline) * d
Allocation(dn) ==
    LET rest == FSub(FromInt(1), sum_baseline)
    IN  [i \in 1..Len(dn) |-> FAdd(baseline[i], FMul(rest, dn[i]))]

\* The float arithmetic of objective and main, worked out once for every
\* vector of -log(u) a run can hold: Sampled[x].d is d / d.sum(),
\* Sampled[x].p is the candidate p, and Rounded[q] is
\* round_probabilities(q, digits=VARIABLES["precision"]) for such a p.
DrawnVectors == UNION {[1..N -> {NegLog(u) : u \in S}] : S \in DrawSets}

\* the function f, with every value worked out once
Tabulated(f) == f @@ <<>>

Sampled ==
    Tabulated([x \in DrawnVectors |->
                  LET dn == Normalised(x) IN [d |-> dn, p |-> Allocation(dn)]])

Rounded ==
    Tabulated([q \in {Sampled[x].p : x \in DrawnVectors} |->
                  round_probabilities(q, precision)])

\* float(input(...)) on the entries the evaluator types
ParseFloat(s) ==
    CASE s = "1.0" -> Fin(FP)
      [] s = "20" -> Fin(20 * FP)
      [] s = "60" -> Fin(60 * FP)
      [] s = "inf" -> Inf
      [] OTHER -> [k |-> "ValueError"]

SharpeEntries == {"abc", "1.0", "inf"}
DrawdownEntries == {"", "20", "60"}

\* float(s) for every entry the evaluator types, and loss_function for every
\* pair of numbers entered, worked out once
Entered == Tabulated([s \in SharpeEntries \cup DrawdownEntries |-> ParseFloat(s)])
Numbers == {Entered[s] : s \in DOMAIN Entered} \ {[k |-> "ValueError"]}
Losses == Tabulated([a \in Numbers \X Numbers |-> loss_function(a[1], a[2])])

\* input(...).strip().lower() on the answers the evaluator types
StripLower(a) ==
    CASE a = "Y" -> "y"
      [] a = " yes " -> "yes"
      [] a = "N" -> "n"
      [] a = "Back" -> "back"
      [] OTHER -> a

Answers == {"Y", " yes ", "", "N", "Back", "maybe"}

NoValue == [k |-> "none", v |-> 0]
cur == Len(trials)

Init ==
    /\ pc = "optimize"
    /\ n_trials \in 1..MaxTrials
    /\ draws \in DrawSets
    /\ trials = <<>>
    /\ d = <<>> /\ p = None /\ p_trim = None
    /\ sharpe = None /\ maxdrawdown = None /\ console = None
    /\ best_trial = NoTrial /\ report = None
    /\ args = None /\ ret = None

MoreTrialsOffByOne == Len(trials) <= n_trials

\* study.optimize(objective, n_trials=...): is another trial due?
MoreTrials == Len(trials) < n_trials

\* study.optimize starts the next trial and calls objective
StartTrial ==
    /\ pc = "optimize"
    /\ MoreTrials
    /\ trials' = Append(trials, [number |-> Len(trials), params |-> <<>>,
                                 user_attrs |-> <<>>, state |-> "RUNNING",
                                 value |-> NoValue])
    /\ d' = <<>>
    /\ pc' = "suggest"
    /\ UNCHANGED <<n_trials, draws, p, p_trim, sharpe, maxdrawdown, console,
                   best_trial, report, args, ret>>

\* one pass of the loop over range(n): u = trial.suggest_float(f"u_{i}", 1e-8, 1.0)
\* and d.append(-math.log(u))
Suggest ==
    /\ pc = "suggest"
    /\ \E u \in draws :
         /\ Low <= u /\ u <= High
         /\ trials' = [trials EXCEPT ![cur].params =
                          Append(@, [key |-> Len(d), low |-> Low, high |-> High,
                                     value |-> u])]
         /\ d' = Append(d, NegLog(u))
    /\ pc' = IF Len(d') = N THEN "sample" ELSE "suggest"
    /\ UNCHANGED <<n_trials, draws, p, p_trim, sharpe, maxdrawdown, console,
                   best_trial, report, args, ret>>

\* d = d / d.sum(); p = baseline + (1 - sum_baseline) * d
Sample ==
    /\ pc = "sample"
    /\ d' = Sampled[d].d
    /\ p' = Sampled[d].p
    /\ pc' = "round"
    /\ UNCHANGED <<n_trials, draws, trials, p_trim, sharpe, maxdrawdown,
                   console, best_trial, report, args, ret>>

RoundThenPrompt ==
    /\ pc = "round"
    /\ ~Raised(Rounded[p])
    /\ p_trim' = Rounded[p]
    /\ pc' = "sharpe"
    /\ UNCHANGED <<n_trials, draws, trials, d, p, sharpe, maxdrawdown, console,
                   best_trial, report, args, ret>>

\* p_trim = round_probabilities(p, digits=VARIABLES["precision"])
Round ==
    /\ pc = "round"
    /\ ~Raised(Rounded[p])
    /\ p_trim' = Rounded[p]
    /\ pc' = "persist"
    /\ UNCHANGED <<n_trials, draws, trials, d, p, sharpe, maxdrawdown, console,
                   best_trial, report, args, ret>>

\* ... when round_probabilities raises: objective raises, the trial fails and
\* study.optimize lets the exception end main
RoundRaises ==
    /\ pc = "round"
    /\ Raised(Rounded[p])
    /\ trials' = [trials EXCEPT ![cur].state = "FAIL"]
    /\ pc' = "raised"
    /\ UNCHANGED <<n_trials, draws, d, p, p_trim, sharpe, maxdrawdown, console,
                   best_trial, report, args, ret>>

\* for i, name in enumerate(names): trial.set_user_attr(f"p_{i}", p_trim[i]),
\* then the candidate is printed
Persist ==
    /\ pc = "persist"
    /\ trials' = [trials EXCEPT ![cur].user_attrs = p_trim.num]
    /\ console' = "Trial candidate allocation"
    /\ pc' = "sharpe"
    /\ UNCHANGED <<n_trials, draws, d, p, p_trim, sharpe, maxdrawdown,
                   best_trial, report, args, ret>>

\* sharpe = float(input("Enter Sharpe: "))
SharpeEntered ==
    /\ pc = "sharpe"
    /\ \E s \in SharpeEntries :
         /\ Entered[s].k # "ValueError"
         /\ sharpe' = Entered[s]
    /\ console' = "Enter MaxDrawdown"
    /\ pc' = "maxdrawdown"
    /\ UNCHANGED <<n_trials, draws, trials, d, p, p_trim, maxdrawdown,
                   best_trial, report, args, ret>>

SharpeInvalidRestartsTrial ==
    /\ pc = "sharpe"
    /\ \E s \in SharpeEntries : Entered[s].k = "ValueError"
    /\ console' = "Invalid input for Sharpe"
    /\ trials' = [trials EXCEPT ![cur].params = <<>>, ![cur].user_attrs = <<>>]
    /\ d' = <<>>
    /\ pc' = "suggest"
    /\ UNCHANGED <<n_trials, draws, p, p_trim, sharpe, maxdrawdown,
                   best_trial, report, args, ret>>

\* except ValueError: print(...); continue
SharpeInvalid ==
    /\ pc = "sharpe"
    /\ \E s \in SharpeEntries : Entered[s].k = "ValueError"
    /\ console' = "Invalid input for Sharpe"
    /\ pc' = "sharpe"
    /\ UNCHANGED <<n_trials, draws, trials, d, p, p_trim, sharpe, maxdrawdown,
                   best_trial, report, args, ret>>

\* maxdrawdown = float(input("Enter MaxDrawdown ...")), then "You entered"
DrawdownEntered ==
    /\ pc = "maxdrawdown"
    /\ \E m \in DrawdownEntries :
         /\ Entered[m].k # "ValueError"
         /\ maxdrawdown' = Entered[m]
    /\ console' = "You entered"
    /\ pc' = "confirm"
    /\ UNCHANGED <<n_trials, draws, trials, d, p, p_trim, sharpe,
                   best_trial, report, args, ret>>

\* except ValueError: print(...); continue
DrawdownInvalid ==
    /\ pc = "maxdrawdown"
    /\ \E m \in DrawdownEntries : Entered[m].k = "ValueError"
    /\ console' = "Invalid input for MaxDrawdown"
    /\ pc' = "sharpe"
    /\ UNCHANGED <<n_trials, draws, trials, d, p, p_trim, sharpe, maxdrawdown,
                   best_trial, report, args, ret>>

\* confirm in ("y", "yes", ""): break
ConfirmYes ==
    /\ pc = "confirm"
    /\ \E a \in Answers : StripLower(a) \in {"y", "yes", ""}
    /\ pc' = "loss"
    /\ UNCHANGED <<n_trials, draws, trials, d, p, p_trim, sharpe, maxdrawdown,
                   console, best_trial, report, args, ret>>

\* confirm in ("n", "no", "back", "b"): continue
ConfirmNo ==
    /\ pc = "confirm"
    /\ \E a \in Answers : StripLower(a) \in {"n", "no", "back", "b"}
    /\ console' = "Let's re-enter the values"
    /\ pc' = "sharpe"
    /\ UNCHANGED <<n_trials, draws, trials, d, p, p_trim, sharpe, maxdrawdown,
                   best_trial, report, args, ret>>

\* else: print("Invalid response ..."); continue
ConfirmInvalid ==
    /\ pc = "confirm"
    /\ \E a \in Answers :
         StripLower(a) \notin {"y", "yes", "", "n", "no", "back", "b"}
    /\ console' = "Invalid response"
    /\ pc' = "sharpe"
    /\ UNCHANGED <<n_trials, draws, trials, d, p, p_trim, sharpe, maxdrawdown,
                   best_trial, report, args, ret>>

\* loss = loss_function(sharpe, maxdrawdown); return loss: the study records
\* the value and the trial is complete; objective's locals are gone
ReturnLoss ==
    /\ pc = "loss"
    /\ trials' = [trials EXCEPT ![cur].value = Losses[<<sharpe, maxdrawdown>>],
                                ![cur].state = "COMPLETE"]
    /\ d' = <<>> /\ p' = None /\ p_trim' = None
    /\ sharpe' = None /\ maxdrawdown' = None
    /\ console' = "Computed Loss"
    /\ pc' = "optimize"
    /\ UNCHANGED <<n_trials, draws, best_trial, report, args, ret>>

RECURSIVE BestUpTo(_, _)
\* study.best_trial: the stored best changes only when a complete trial's
\* value is strictly smaller, so the first of several minima stays
BestUpTo(ts, k) ==
    IF k = 0 THEN NoTrial
    ELSE LET b == BestUpTo(ts, k - 1)
         IN  IF ts[k].state # "COMPLETE" THEN b
             ELSE IF b = NoTrial THEN ts[k].number
             ELSE IF Gt(ts[b + 1].value, ts[k].value) THEN ts[k].number
             ELSE b

\* best_trial = study.best_trial, once study.optimize has returned
ReadBest ==
    /\ pc = "optimize"
    /\ ~MoreTrials
    /\ best_trial' = BestUpTo(trials, Len(trials))
    /\ pc' = "report"
    /\ UNCHANGED <<n_trials, draws, trials, d, p, p_trim, sharpe, maxdrawdown,
                   console, report, args, ret>>

\* the u_i main reads back: best_trial.params.get(f"u_{i}") for i in range(n)
StoredDraws(t) == [i \in 1..N |-> t.params[i].value]

\* f"{x*100:.{k}f}" for x = num/den: x*100 rounded to k decimals, as its
\* whole part and its k fractional digits
FormatPercent(num, den, k) ==
    LET q == num * 100 * 10^k
        lo == q \div den
        r2 == 2 * (q % den)
        units == IF r2 > den \/ (r2 = den /\ lo % 2 = 1) THEN lo + 1 ELSE lo
    IN  [whole |-> units \div 10^k, frac |-> units % 10^k]

\* what main prints for the rounded allocation r: one line per asset and the
\* "Sum:" line (nothing once round_probabilities has raised)
Printed(r) ==
    IF Raised(r) THEN r
    ELSE [raised |-> None,
          lines |-> [i \in 1..N |->
                        [name |-> names[i],
                         percent |-> FormatPercent(r.num[i], r.den, precision - 2)]],
          sum |-> FormatPercent(Sum(r.num), r.den, precision - 2)]

\* what main prints for trial t: d from the stored u_i, d / d.sum(), p_all,
\* p_trim, then the lines
ReportOf(t) ==
    Printed(Rounded[Sampled[[i \in 1..N |-> NegLog(StoredDraws(t)[i])]].p])

\* ... reconstructing from the study's last trial instead of the best one
ReconstructFromLastTrial ==
    /\ pc = "report"
    /\ report' = ReportOf(trials[Len(trials)])
    /\ pc' = IF Raised(report') THEN "raised" ELSE "done"
    /\ UNCHANGED <<n_trials, draws, trials, d, p, p_trim, sharpe, maxdrawdown,
                   console, best_trial, args, ret>>

\* main reconstructs the candidate from best_trial's parameters and prints it
Reconstruct ==
    /\ pc = "report"
    /\ report' = ReportOf(trials[best_trial + 1])
    /\ pc' = IF Raised(report') THEN "raised" ELSE "done"
    /\ UNCHANGED <<n_trials, draws, trials, d, p, p_trim, sharpe, maxdrawdown,
                   console, best_trial, args, ret>>

Next ==
    \/ StartTrial \/ Suggest \/ Sample \/ Round \/ RoundRaises \/ Persist
    \/ SharpeEntered \/ SharpeInvalid \/ DrawdownEntered \/ DrawdownInvalid
    \/ ConfirmYes \/ ConfirmNo \/ ConfirmInvalid \/ ReturnLoss
    \/ ReadBest \/ Reconstruct

Spec == Init /\ [][Next]_vars

(***************************************************************************)
(* Claims about the study (checked under Spec).                            *)
(***************************************************************************)
Trials == 1..Len(trials)
PromptPcs == {"sharpe", "maxdrawdown", "confirm"}
\* the allocation objective computes from a trial's stored draws
AllocationOf(t) == Sampled[[i \in 1..N |-> NegLog(StoredDraws(t)[i])]].p
BoundaryDraw(t) ==
    \E j \in 1..Len(t.params) : t.params[j].value <= Low \/ t.params[j].value >= High

\* the floors of the claim, in hundredths: 0.40, 0.10, 0.05, 0, 0, 0
floors == [num |-> <<40, 10, 5, 0, 0, 0>>, den |-> 100]

\* C2: every trial that reached Evaluated has attributes p_0..p_{N-1} that
\* sum to exactly 1 at the configured precision, each at least its floor
\* (0.40, 0.10, 0.05, 0, 0, 0), whatever the service returned in its bound.
C2_EvaluatedAllocationsValid ==
    \A t \in Trials :
        trials[t].state = "COMPLETE" =>
            /\ Len(trials[t].user_attrs) = N
            /\ Sum(trials[t].user_attrs) = 10^precision
            /\ \A i \in 1..N :
                  trials[t].user_attrs[i] * floors.den
                      >= floors.num[i] * 10^precision

\* an evaluated trial that drew a value on the edge of the bound and whose
\* rounding had units to hand out
C2_Witness ==
    \E t \in Trials :
        /\ trials[t].state = "COMPLETE"
        /\ BoundaryDraw(trials[t])
        /\ Deficit(AllocationOf(trials[t]), 10^precision) > 0

\* C3: a run with budget T never holds more than T trial records; once the
\* best trial is reported there are exactly T records, each with its loss,
\* the reported trial's loss is the minimum over them, and every earlier
\* trial has a strictly larger loss (the first of several minima is reported).
C3_BudgetAndFirstMinimum ==
    /\ Len(trials) <= n_trials
    /\ pc \in {"report", "done"} =>
          /\ Len(trials) = n_trials
          /\ \A t \in Trials : trials[t].state = "COMPLETE"
          /\ best_trial \in 0..(n_trials - 1)
          /\ \A t \in Trials :
                /\ ~Gt(trials[best_trial + 1].value, trials[t].value)
                /\ trials[t].number < best_trial
                       => Gt(trials[t].value, trials[best_trial + 1].value)

\* a finished run of two or more trials in which a later trial tied the
\* minimum and the earlier one was reported
C3_Witness ==
    /\ pc = "done"
    /\ n_trials >= 2
    /\ best_trial = 0
    /\ \E t \in Trials : t > 1 /\ trials[t].value = trials[1].value

\* C4: every step taken while the evaluator is being prompted leaves the
\* trial records (their number, the sampled u_i, the persisted p_i)
\* unchanged and stays in the prompt loop or leaves it towards the loss;
\* the loss is only reached from a confirmation, with both entries parsed
\* as numbers, and a trial only receives its value from there.
C4_RetriesKeepTheTrial ==
    [][/\ pc \in PromptPcs => (trials' = trials /\ pc' \in PromptPcs \cup {"loss"})
       /\ (pc' = "loss" /\ pc # "loss") =>
              /\ pc = "confirm"
              /\ sharpe.k \in {"fin", "inf", "ninf", "nan"}
              /\ maxdrawdown.k \in {"fin", "inf", "ninf", "nan"}
       /\ (Len(trials') = Len(trials) /\ Len(trials) > 0
             /\ trials[cur].state # "COMPLETE" /\ trials'[cur].state = "COMPLETE")
              => pc = "loss"]_vars

\* the evaluator has just given an unrecognised answer and is asked again
\* for the same trial, whose attributes are still in place
C4_Witness ==
    /\ pc = "sharpe"
    /\ console = "Invalid response"
    /\ Len(trials[cur].user_attrs) = N
    /\ Len(trials[cur].params) = N

\* C5: a trial that was handed a draw outside the open interval (1e-8, 1)
\* never gets an allocation persisted and is never evaluated.
C5_BoundaryDrawsRejected ==
    \A t \in Trials :
        BoundaryDraw(trials[t]) =>
            /\ trials[t].user_attrs = <<>>
            /\ trials[t].state # "COMPLETE"

\* C6: the loss function is only handed finite values, and no trial record
\* carries a non-finite loss.
C6_OnlyFiniteEvaluations ==
    /\ pc = "loss" => (IsFinite(sharpe) /\ IsFinite(maxdrawdown))
    /\ \A t \in Trials : trials[t].state = "COMPLETE" => IsFinite(trials[t].value)

\* C7: in every trial the suggestions were requested for u_0, u_1, ... in
\* that order with the same bound; attributes are persisted only once all N
\* draws are in and are the rounded values; the evaluator is prompted only
\* once they are persisted; and a trial has requests only after every
\* earlier trial has ended with its loss returned.
C7_StrictOrder ==
    /\ \A t \in Trials :
          /\ trials[t].number = t - 1
          /\ Len(trials[t].params) <= N
          /\ \A j \in 1..Len(trials[t].params) :
                /\ trials[t].params[j].key = j - 1
                /\ trials[t].params[j].low = Low
                /\ trials[t].params[j].high = High
          /\ trials[t].user_attrs # <<>> =>
                Len(trials[t].params) = N /\ Len(trials[t].user_attrs) = N
          /\ trials[t].state = "COMPLETE" => trials[t].user_attrs # <<>>
          /\ t < Len(trials) => trials[t].state = "COMPLETE"
    /\ pc \in {"sample", "round", "persist"} =>
          Len(trials[cur].params) = N /\ trials[cur].user_attrs = <<>>
    /\ pc \in PromptPcs \cup {"loss"} =>
          /\ trials[cur].state = "RUNNING"
          /\ trials[cur].user_attrs = p_trim.num

\* the evaluator is being prompted for the second trial, after the first
\* one's loss was returned
C7_Witness ==
    /\ pc = "sharpe"
    /\ Len(trials) = 2
    /\ trials[1].state = "COMPLETE"
    /\ Len(trials[2].user_attrs) = N

\* the number a printed percentage stands for, in units of 10^-precision
PrintedUnits(line) == line.percent.whole * 10^(precision - 2) + line.percent.frac

\* C11: once the final report is printed, the best trial is an evaluated
\* trial with its N attributes in place, and for every asset the line that
\* main recomputed from that trial's stored u_0..u_{N-1} names the asset and
\* shows exactly the attribute p_i persisted for that trial during the run;
\* the recomputation does not raise and the "Sum:" line shows 100 percent.
C11_ReportEqualsPersisted ==
    pc = "done" =>
        /\ ~Raised(report)
        /\ best_trial \in 0..(Len(trials) - 1)
        /\ trials[best_trial + 1].state = "COMPLETE"
        /\ Len(trials[best_trial + 1].user_attrs) = N
        /\ \A i \in 1..N :
              /\ report.lines[i].name = names[i]
              /\ PrintedUnits(report.lines[i]) = trials[best_trial + 1].user_attrs[i]
        /\ report.sum = [whole |-> 100, frac |-> 0]

\* a report on the second of two trials, whose persisted allocation differs
\* from the first trial's and has an asset above its floor by a fraction of
\* a percent
C11_Witness ==
    /\ pc = "done"
    /\ Len(trials) = 2
    /\ best_trial = 1
    /\ trials[1].user_attrs # trials[2].user_attrs
    /\ \E i \in 1..N : report.lines[i].percent.frac # 0

(***************************************************************************)
(* Claims about round_probabilities (checked under SpecRound).             *)
(***************************************************************************)
Returned == pc = "returned"
Scale == 10^args.digits
\* the vector as written sums to 1 within Tol grid units, or to exactly 1
SumsWithinTol == Sum(args.literal.num) - args.literal.den \in (0 - Tol)..Tol
SumsExactly == Sum(args.literal.num) = args.literal.den
\* the entries of the result that stand one unit above their floor
GotUnit == {i \in 1..Len(args.p) : ret.num[i] = floor_vals(args.p, Scale)[i] + 1}
\* the entries of the result that were left at their floor
KeptFloor == {i \in 1..Len(args.p) : ret.num[i] = floor_vals(args.p, Scale)[i]}

\* C1: for every vector summing to 1 within tolerance and every digit count,
\* the call returns, the returned units sum to exactly 10^digits, the deficit
\* lies in 0..len(p), and exactly deficit entries stand one unit above their
\* floor while the others keep it.
C1_SumIsExactlyScale ==
    (Returned /\ SumsWithinTol) =>
        /\ ~Raised(ret)
        /\ Sum(ret.num) = Scale
        /\ Deficit(args.p, Scale) \in 0..Len(args.p)
        /\ Cardinality(GotUnit) = Deficit(args.p, Scale)
        /\ GotUnit \cup KeptFloor = 1..Len(args.p)

\* C8: whenever the deficit can be handed out (0 <= deficit <= len(p)),
\* exactly deficit entries get one unit, every entry that gets one has a
\* larger remainder than every entry that does not, or an equal remainder
\* and a lower index, and all other entries keep their floor.
C8_LargestRemainderLowestIndexFirst ==
    (Returned /\ ~Raised(ret) /\ Deficit(args.p, Scale) >= 0) =>
        LET rem == remainders(args.p, Scale)
        IN  /\ Cardinality(GotUnit) = Deficit(args.p, Scale)
            /\ GotUnit \cup KeptFloor = 1..Len(args.p)
            /\ \A i \in GotUnit : \A j \in KeptFloor :
                   FLess(rem[j], rem[i]) \/ (rem[i] = rem[j] /\ i < j)

\* a call where the units ran out inside a group of equal remainders
C8_Witness ==
    /\ Returned /\ ~Raised(ret) /\ Deficit(args.p, Scale) >= 0
    /\ \E i \in GotUnit : \E j \in KeptFloor :
           /\ remainders(args.p, Scale)[i] = remainders(args.p, Scale)[j]
           /\ ~FIsZero(remainders(args.p, Scale)[i])
           /\ i < j

\* |r / scale - x| < 1 / scale in the reals, for a float x in 0..1 and a
\* whole number r: r is the floor of the real product x * scale, or one more
\* than it when that product is not whole
WithinOneUnit(r, x, scale) ==
    LET M == BMul(x.m, BFromInt(scale))
        lo == BToInt(BShr(M, 0 - x.e))
    IN  r = lo \/ (r = lo + 1 /\ ~BLowZero(M, 0 - x.e))

\* C9: for a vector summing to exactly 1 the call returns, every returned
\* value is less than 10^-digits away from its input, and an entry whose
\* remainder is 0 keeps its floor.
C9_ErrorBelowOneUnit ==
    (Returned /\ SumsExactly) =>
        /\ ~Raised(ret)
        /\ \A i \in 1..Len(args.p) :
              /\ WithinOneUnit(ret.num[i], args.p[i], Scale)
              /\ FIsZero(remainders(args.p, Scale)[i])
                   => ret.num[i] = floor_vals(args.p, Scale)[i]

\* a call on an exact vector where units were handed out past an entry of
\* remainder 0
C9_Witness ==
    /\ Returned /\ SumsExactly /\ ~Raised(ret)
    /\ GotUnit # {}
    /\ \E i \in KeptFloor :
          FIsZero(remainders(args.p, Scale)[i]) /\ ~FIsZero(args.p[i])

(***************************************************************************)
(* Claims about loss_function (checked under SpecLoss).                    *)
(***************************************************************************)
Forty == Fin(40 * FP)
Penalty(m) == Add(Div100(m), Neg(Fin((4 * FP) \div 10)))

\* x lies less than 1 / FP^2 from the decimal v / FP
Near(x, v) ==
    /\ Gt(x, FromDecimal(v * FP - 1, FP * FP))
    /\ Gt(FromDecimal(v * FP + 1, FP * FP), x)

\* C10: the loss is -sharpe when maxdrawdown <= 40 and
\* -sharpe + (maxdrawdown/100 - 0.4) when maxdrawdown > 40, negative inputs
\* included (as floats, and for the decimals written within 1 / FP^2 of the
\* real value); loss(1.0, 20) = -1.0, loss(1.0, 60) = -0.8,
\* loss(0.0, 0) = 0.0 and loss(-0.5, 45.0) = 0.55.
C10_LossPiecewise ==
    Returned =>
        LET s == args.sharpe
            m == args.maxdrawdown
            ws == args.literal.sharpe
            wm == args.literal.maxdrawdown
        IN  /\ (m.k # "nan" /\ ~Gt(m, Forty)) => ret = Neg(s)
            /\ Gt(m, Forty) => ret = Add(Neg(s), Penalty(m))
            /\ (ws.k = "fin" /\ wm.k = "fin" /\ wm.v <= 40 * FP)
                   => Near(ret, 0 - ws.v)
            /\ (ws.k = "fin" /\ wm.k = "fin" /\ wm.v > 40 * FP)
                   => Near(ret, (wm.v \div 100) - (4 * FP) \div 10 - ws.v)
            /\ (ws = Decimal(FP) /\ wm = Decimal(20 * FP)) => ret = Fin(-(FP))
            /\ (ws = Decimal(FP) /\ wm = Decimal(60 * FP))
                   => ret = Fin(-((8 * FP) \div 10))
            /\ (ws = Decimal(0) /\ wm = Decimal(0)) => ret = Fin(0)
            /\ (ws = Decimal(-(FP \div 2)) /\ wm = Decimal(45 * FP))
                   => ret = Fin((55 * FP) \div 100)

\* loss(-0.5, 45.0) was computed: a negative Sharpe and a drawdown past 40
C10_Witness ==
    /\ Returned
    /\ args.literal.sharpe = Decimal(-(FP \div 2))
    /\ args.literal.maxdrawdown = Decimal(45 * FP)
    /\ ret = Fin((55 * FP) \div 100)

=============================================================================
